---- MODULE Spec2Model ----
(***************************************************************************)
(* Board / list / card hierarchy of the Trello clone: the API route        *)
(* handlers (src/app/api), the database helpers they call (lib/database)   *)
(* and the drag-and-drop handler of the board page.                        *)
(***************************************************************************)
EXTENDS Integers, Sequences, FiniteSets, TLC

\* ------------------------------------------------------------------ bounds
MaxBoards == 2
MaxLists == 2
MaxCards == 2
MaxOrgs == 2

\* ------------------------------------------------------------- identifiers
\* Row ids are UUIDs (uuid_generate_v4): an id of one table never equals an id
\* of another table.  Each table draws its ids from its own range.
BoardBase == 100
ListBase == 200
CardBase == 300
OrgBase == 400

BoardIds == (BoardBase + 1)..(BoardBase + MaxBoards)
ListIds == (ListBase + 1)..(ListBase + MaxLists)
CardIds == (CardBase + 1)..(CardBase + MaxCards)
OrgIds == (OrgBase + 1)..(OrgBase + MaxOrgs)

\* rows of the users table; every user holds a token signed for its id
UserIds == {"u1", "u2"}
NoUser == "null"
NoId == 0
\* a body field that is absent (or the empty string): falsy in the handlers
Missing == ""
CreateNames == {"a"}
UpdateNames == {"b"}

\* The Authorization header of a request: absent, a token that jwt.verify
\* rejects (malformed, wrong signature, expired), or a token signed for userId.
AuthHeaders ==
    {[present |-> FALSE, valid |-> FALSE, userId |-> NoUser],
     [present |-> TRUE, valid |-> FALSE, userId |-> NoUser]}
    \cup {[present |-> TRUE, valid |-> TRUE, userId |-> u] : u \in UserIds}

ValidHeader(u) == [present |-> TRUE, valid |-> TRUE, userId |-> u]

VARIABLES
    organizations,  \* rows [id, ownerId]
    boards,         \* rows [id, name, organizationId, ownerId]
    lists,          \* rows [id, name, boardId, position]
    cards,          \* rows [id, title, listId, position]
    nextId,         \* per table, the number of ids handed out so far
    resp,           \* the request being answered and its response
    before,         \* the tables as they were when that request arrived
    inflight,       \* per concurrent create request, how far its handler got
    page,           \* the board page: token, params.id, the board state, error
    drop,           \* the last drag-end event and the lists it found
    users           \* rows [id, email, password, name]; password is the digest

store == <<organizations, boards, lists, cards, nextId>>
vars == <<organizations, boards, lists, cards, nextId, resp, before, inflight, page, drop,
         users>>

\* the tables as one value
Tables == [users |-> users, organizations |-> organizations, boards |-> boards,
           lists |-> lists, cards |-> cards]

\* ------------------------------------------------------------ pure helpers
Max(S) == CHOOSE x \in S : \A y \in S : y <= x

\* the token read without verification (jwt.decode for jwt.verify)
getUserIdFromToken_Decode(authHeader) ==
    IF ~authHeader.present THEN NoUser ELSE authHeader.userId

\* getUserIdFromToken: null without a header or when jwt.verify throws
getUserIdFromToken(authHeader) ==
    IF ~authHeader.present THEN NoUser
    ELSE IF ~authHeader.valid THEN NoUser
    ELSE authHeader.userId

\* the boards lookup without the owner_id condition
verifyBoardOwnership_AnyOwner(boardId, userId) ==
    \E b \in boards : b.id = boardId

\* lib/database verifyBoardOwnership: a boards row with this id and owner
verifyBoardOwnership(boardId, userId) ==
    \E b \in boards : b.id = boardId /\ b.ownerId = userId

\* lib/database verifyListAccess: a lists row with this id, inner-joined to a
\* boards row owned by userId
verifyListAccess(listId, userId) ==
    \E l \in lists : /\ l.id = listId
                     /\ \E b \in boards : b.id = l.boardId /\ b.ownerId = userId

\* getListPosition with 0 for a board without lists
getListPosition_ZeroWhenEmpty(boardId) ==
    LET ps == {l.position : l \in {x \in lists : x.boardId = boardId}}
    IN IF ps = {} THEN 0 ELSE Max(ps)

\* lib/database getListPosition: highest position of the board's lists, or -1
getListPosition(boardId) ==
    LET ps == {l.position : l \in {x \in lists : x.boardId = boardId}}
    IN IF ps = {} THEN -1 ELSE Max(ps)

\* the card position without the increment
nextCardPosition_NoIncrement(listId) ==
    LET ps == {c.position : c \in {x \in cards : x.listId = listId}}
    IN IF ps = {} THEN 0 ELSE Max(ps)

\* POST /api/cards: lastCard ? lastCard.position + 1 : 0
nextCardPosition(listId) ==
    LET ps == {c.position : c \in {x \in cards : x.listId = listId}}
    IN IF ps = {} THEN 0 ELSE Max(ps) + 1

\* ---------------------------------------------------------------- responses
NoRow == {}
NoBody == <<>>

Response(op, auth, id, name, status, error, row, body) ==
    [op |-> op, auth |-> auth, id |-> id, name |-> name,
     status |-> status, error |-> error, row |-> row, body |-> body]

Unauthorized(op, auth, id, name) ==
    Response(op, auth, id, name, 401, "Unauthorized", NoRow, NoBody)

\* no request is being handled
Idle == Response("none", [present |-> FALSE, valid |-> FALSE, userId |-> NoUser],
                 NoId, Missing, 0, "", NoRow, NoBody)

\* the requests that run concurrently
Procs == {"p1", "p2"}

\* the handler of a request between two awaits
Pending(pc, op, userId, name, parent, position, status, error) ==
    [pc |-> pc, op |-> op, userId |-> userId, name |-> name, parent |-> parent,
     position |-> position, status |-> status, error |-> error]

NotStarted == Pending("idle", "none", NoUser, Missing, NoId, 0, 0, "")

\* the board page before its board is loaded (board is null)
NoPage == [user |-> NoUser, id |-> NoId, loaded |-> FALSE, lists |-> <<>>, error |-> ""]
NoDrop == [active |-> NoId, over |-> NoId, lists |-> <<>>]

\* bcrypt.hash(password, 10): a digest under a fresh salt, never the password
Salts == {"s1", "s2"}
Digest(password, salt) == [salt |-> salt, hash |-> <<"bcrypt", salt, password>>]

\* bcrypt.compare(password, digest): hashes the password under the digest's salt
Compare(password, digest) == Digest(password, digest.salt).hash = digest.hash

\* what a registration or login request can carry
Emails == {"e1", "e2"}
Passwords == {"pw1", "pw2"}
\* users.id is generated; the model names the row of each email
UserIdOf == [e \in Emails |-> IF e = "e1" THEN "u1" ELSE "u2"]

\* The users whose tokens the requests carry have registered and logged in.
Init ==
    /\ users = {[id |-> UserIdOf[e], email |-> e, password |-> Digest("pw1", "s1"),
                 name |-> "n"] : e \in Emails}
    /\ page = NoPage
    /\ drop = NoDrop
    /\ inflight = [p \in Procs |-> NotStarted]
    /\ organizations = {}
    /\ boards = {}
    /\ lists = {}
    /\ cards = {}
    /\ nextId = [t \in {"org", "board", "list", "card"} |-> 0]
    /\ resp = Idle
    /\ before = Tables

\* ------------------------------------------------------- GET /api/boards
\* every enumeration of the finite set S as a sequence without repetition
Orderings(S) ==
    {f \in [1..Cardinality(S) -> S] : \A i, j \in 1..Cardinality(S) : i # j => f[i] # f[j]}

\* boards come newest first (orderBy createdAt desc); ids grow with creation
RECURSIVE NewestFirst(_)
NewestFirst(S) ==
    IF S = {} THEN <<>>
    ELSE LET b == CHOOSE x \in S : \A y \in S : y.id <= x.id
         IN <<b>> \o NewestFirst(S \ {b})

CardsOf(listId) == {c \in cards : c.listId = listId}
ListsOf(boardId) == {l \in lists : l.boardId = boardId}

\* the read without the owner filter
getBoardsByOwner_All(ownerId) == boards

\* lib/database getBoardsByOwner / prisma.board.findMany({where: {ownerId}})
getBoardsByOwner(ownerId) == {b \in boards : b.ownerId = ownerId}

\* The bodies a read of the owner's boards can return.  `boards` is the array
\* of board rows; lists[b] is the `lists` array nested in board b and cards[l]
\* the `cards` array nested in list l.  The include has no orderBy, so the
\* nested rows come back in any order.
BoardBodies(ownerId) ==
    LET own == getBoardsByOwner(ownerId)
        ls == UNION {ListsOf(b.id) : b \in own}
        bIds == {b.id : b \in own}
        lIds == {l.id : l \in ls}
    IN {[boards |-> NewestFirst(own), lists |-> lo, cards |-> co] :
          lo \in {f \in [bIds -> UNION {Orderings(ListsOf(b)) : b \in bIds}] :
                    \A b \in bIds : f[b] \in Orderings(ListsOf(b))},
          co \in {f \in [lIds -> UNION {Orderings(CardsOf(l)) : l \in lIds}] :
                    \A l \in lIds : f[l] \in Orderings(CardsOf(l))}}

GetBoards(auth) ==
    LET userId == getUserIdFromToken(auth)
    IN /\ IF userId = NoUser
          THEN resp' = Unauthorized("GET /boards", auth, NoId, Missing)
          ELSE \E body \in BoardBodies(userId) :
                  resp' = Response("GET /boards", auth, NoId, Missing, 200, "", NoRow, body)
       /\ UNCHANGED store

\* ------------------------------------------------------ POST /api/boards
\* an organization is created for every board
ResolveOrg_AlwaysNew(userId, organizationId) ==
    {[id |-> OrgBase + nextId["org"] + 1, new |-> TRUE]}

\* let orgId = organizationId; without one, the caller's organization
\* (findFirst: any one of them) or a new one
ResolveOrg(userId, organizationId) ==
    IF organizationId # NoId
    THEN {[id |-> organizationId, new |-> FALSE]}
    ELSE IF \E o \in organizations : o.ownerId = userId
    THEN {[id |-> o.id, new |-> FALSE] : o \in {x \in organizations : x.ownerId = userId}}
    ELSE {[id |-> OrgBase + nextId["org"] + 1, new |-> TRUE]}

PostBoards(auth, name, organizationId) ==
    LET userId == getUserIdFromToken(auth)
        op == "POST /boards"
    IN IF userId = NoUser
       THEN resp' = Unauthorized(op, auth, organizationId, name) /\ UNCHANGED store
       ELSE IF name = Missing
       THEN /\ resp' = Response(op, auth, organizationId, name, 400,
                                "Board name is required", NoRow, NoBody)
            /\ UNCHANGED store
       ELSE \E org \in ResolveOrg(userId, organizationId) :
            LET board == [id |-> BoardBase + nextId["board"] + 1, name |-> name,
                          organizationId |-> org.id, ownerId |-> userId]
                \* Board_organizationId_fkey: the insert needs the organization row
                fk == org.new \/ \E o \in organizations : o.id = org.id
            IN /\ org.new => nextId["org"] < MaxOrgs
               /\ fk => nextId["board"] < MaxBoards
               /\ organizations' = IF org.new
                                   THEN organizations \cup {[id |-> org.id, ownerId |-> userId]}
                                   ELSE organizations
               /\ boards' = IF fk THEN boards \cup {board} ELSE boards
               /\ nextId' = [nextId EXCEPT !["org"] = IF org.new THEN @ + 1 ELSE @,
                                           !["board"] = IF fk THEN @ + 1 ELSE @]
               /\ resp' = IF fk
                          THEN Response(op, auth, organizationId, name, 200, "", {board}, NoBody)
                          ELSE Response(op, auth, organizationId, name, 500,
                                        "Failed to create board", NoRow, NoBody)
               /\ UNCHANGED <<lists, cards>>

\* ------------------------------------------------------- POST /api/lists
\* status and error of POST /api/lists
PostListsResult(userId, name, boardId) ==
    IF userId = NoUser THEN <<401, "Unauthorized">>
    ELSE IF name = Missing \/ boardId = NoId
    THEN <<400, "List name and board ID are required">>
    ELSE IF ~verifyBoardOwnership(boardId, userId)
    THEN <<404, "Board not found or access denied">>
    ELSE <<200, "">>

\* createList that leaves the position to the column default
createList_DefaultPosition(name, boardId, position) ==
    [id |-> ListBase + nextId["list"] + 1, name |-> name, boardId |-> boardId,
     position |-> 0]

\* lib/database createList
createList(name, boardId, position) ==
    [id |-> ListBase + nextId["list"] + 1, name |-> name, boardId |-> boardId,
     position |-> position]

PostLists(auth, name, boardId) ==
    LET userId == getUserIdFromToken(auth)
        res == PostListsResult(userId, name, boardId)
        op == "POST /lists"
    IN IF res[1] = 200
       THEN LET lastPosition == getListPosition(boardId)
                position == lastPosition + 1
                list == createList(name, boardId, position)
            IN /\ nextId["list"] < MaxLists
               /\ lists' = lists \cup {list}
               /\ nextId' = [nextId EXCEPT !["list"] = @ + 1]
               /\ resp' = Response(op, auth, boardId, name, 200, "", {list}, NoBody)
               /\ UNCHANGED <<organizations, boards, cards>>
       ELSE /\ resp' = Response(op, auth, boardId, name, res[1], res[2], NoRow, NoBody)
            /\ UNCHANGED store

\* --------------------------------------------------- PUT /api/lists/[id]
\* PUT /api/lists/[id] without the access check
PutListResult_NoAccessCheck(userId, id, name) ==
    IF userId = NoUser THEN <<401, "Unauthorized">>
    ELSE IF name = Missing THEN <<400, "List name is required">>
    ELSE IF \E l \in lists : l.id = id THEN <<200, "">>
    ELSE <<500, "Failed to update list">>

\* status and error of PUT /api/lists/[id]; updateList ends in .single(),
\* which fails when no lists row has the id
PutListResult(userId, id, name) ==
    IF userId = NoUser THEN <<401, "Unauthorized">>
    ELSE IF name = Missing THEN <<400, "List name is required">>
    ELSE IF ~verifyBoardOwnership(id, userId)
    THEN <<404, "List not found or access denied">>
    ELSE IF \E l \in lists : l.id = id THEN <<200, "">>
    ELSE <<500, "Failed to update list">>

\* lib/database updateList
updateList(id, name) ==
    {IF l.id = id THEN [l EXCEPT !.name = name] ELSE l : l \in lists}

PutList(auth, id, name) ==
    LET userId == getUserIdFromToken(auth)
        res == PutListResult(userId, id, name)
        op == "PUT /lists/:id"
    IN IF res[1] = 200
       THEN /\ lists' = updateList(id, name)
            /\ resp' = Response(op, auth, id, name, 200, "",
                                {l \in updateList(id, name) : l.id = id}, NoBody)
            /\ UNCHANGED <<organizations, boards, cards, nextId>>
       ELSE /\ resp' = Response(op, auth, id, name, res[1], res[2], NoRow, NoBody)
            /\ UNCHANGED store

\* ------------------------------------------------ DELETE /api/lists/[id]
DeleteListResult(userId, id) ==
    IF userId = NoUser THEN <<401, "Unauthorized">>
    ELSE IF ~verifyBoardOwnership(id, userId)
    THEN <<404, "List not found or access denied">>
    ELSE <<200, "">>

DeleteList(auth, id) ==
    LET userId == getUserIdFromToken(auth)
        res == DeleteListResult(userId, id)
        op == "DELETE /lists/:id"
    IN IF res[1] = 200
       THEN \* deleteList: the cards of the list, then the list
            /\ cards' = {c \in cards : c.listId # id}
            /\ lists' = {l \in lists : l.id # id}
            /\ resp' = Response(op, auth, id, Missing, 200, "", NoRow, NoBody)
            /\ UNCHANGED <<organizations, boards, nextId>>
       ELSE /\ resp' = Response(op, auth, id, Missing, res[1], res[2], NoRow, NoBody)
            /\ UNCHANGED store

\* ------------------------------------------------------- POST /api/cards
\* the list lookup without the owner condition
findOwnedList_AnyOwner(listId, userId) == {l \in lists : l.id = listId}

\* prisma.list.findFirst({where: {id: listId, board: {ownerId: userId}}})
findOwnedList(listId, userId) ==
    {l \in lists : /\ l.id = listId
                   /\ \E b \in boards : b.id = l.boardId /\ b.ownerId = userId}

\* POST /api/cards without the check of title and listId
PostCardsResult_NoValidation(userId, title, listId) ==
    IF userId = NoUser THEN <<401, "Unauthorized">>
    ELSE IF findOwnedList(listId, userId) = {}
    THEN <<404, "List not found or access denied">>
    ELSE <<200, "">>

\* status and error of POST /api/cards
PostCardsResult(userId, title, listId) ==
    IF userId = NoUser THEN <<401, "Unauthorized">>
    ELSE IF title = Missing \/ listId = NoId
    THEN <<400, "Card title and list ID are required">>
    ELSE IF findOwnedList(listId, userId) = {}
    THEN <<404, "List not found or access denied">>
    ELSE <<200, "">>

PostCards(auth, title, listId) ==
    LET userId == getUserIdFromToken(auth)
        res == PostCardsResult(userId, title, listId)
        op == "POST /cards"
    IN IF res[1] = 200
       THEN LET card == [id |-> CardBase + nextId["card"] + 1, title |-> title,
                         listId |-> listId, position |-> nextCardPosition(listId)]
            IN /\ nextId["card"] < MaxCards
               /\ cards' = cards \cup {card}
               /\ nextId' = [nextId EXCEPT !["card"] = @ + 1]
               /\ resp' = Response(op, auth, listId, title, 200, "", {card}, NoBody)
               /\ UNCHANGED <<organizations, boards, lists>>
       ELSE /\ resp' = Response(op, auth, listId, title, res[1], res[2], NoRow, NoBody)
            /\ UNCHANGED store

\* --------------------------------------------------- PUT /api/cards/[id]
\* status and error of PUT /api/cards/[id]; updateCard ends in .single()
PutCardResult(userId, id, title) ==
    IF userId = NoUser THEN <<401, "Unauthorized">>
    ELSE IF title = Missing THEN <<400, "Card title is required">>
    ELSE IF ~verifyListAccess(id, userId)
    THEN <<404, "Card not found or access denied">>
    ELSE IF \E c \in cards : c.id = id THEN <<200, "">>
    ELSE <<500, "Failed to update card">>

\* lib/database updateCard
updateCard(id, title) ==
    {IF c.id = id THEN [c EXCEPT !.title = title] ELSE c : c \in cards}

PutCard(auth, id, title) ==
    LET userId == getUserIdFromToken(auth)
        res == PutCardResult(userId, id, title)
        op == "PUT /cards/:id"
    IN IF res[1] = 200
       THEN /\ cards' = updateCard(id, title)
            /\ resp' = Response(op, auth, id, title, 200, "",
                                {c \in updateCard(id, title) : c.id = id}, NoBody)
            /\ UNCHANGED <<organizations, boards, lists, nextId>>
       ELSE /\ resp' = Response(op, auth, id, title, res[1], res[2], NoRow, NoBody)
            /\ UNCHANGED store

\* ------------------------------------------------ DELETE /api/cards/[id]
DeleteCardResult(userId, id) ==
    IF userId = NoUser THEN <<401, "Unauthorized">>
    ELSE IF ~verifyListAccess(id, userId)
    THEN <<404, "Card not found or access denied">>
    ELSE <<200, "">>

DeleteCard(auth, id) ==
    LET userId == getUserIdFromToken(auth)
        res == DeleteCardResult(userId, id)
        op == "DELETE /cards/:id"
    IN IF res[1] = 200
       THEN \* deleteCard
            /\ cards' = {c \in cards : c.id # id}
            /\ resp' = Response(op, auth, id, Missing, 200, "", NoRow, NoBody)
            /\ UNCHANGED <<organizations, boards, lists, nextId>>
       ELSE /\ resp' = Response(op, auth, id, Missing, res[1], res[2], NoRow, NoBody)
            /\ UNCHANGED store

\* ------------------------------------------------------------ the server
\* a request arrives while none is being answered; the tables it finds are
\* remembered for the claims about what it changed
Arrives ==
    /\ resp = Idle
    /\ before' = Tables
    /\ UNCHANGED inflight

\* a request that is not made by the board page
Server == UNCHANGED <<page, drop, users>>

\* the caller takes the response (its fetch resolves)
TakeResponse ==
    /\ resp # Idle
    /\ resp' = Idle
    /\ before' = Tables
    /\ UNCHANGED <<store, inflight, page, drop, users>>

\* A handler answers 401 before it reads the body or the path parameter, so
\* the body and the path of a request whose token is rejected are never read.
BodyRead(auth, values) == IF getUserIdFromToken(auth) = NoUser THEN {Missing} ELSE values
IdRead(auth, ids) == IF getUserIdFromToken(auth) = NoUser THEN {NoId} ELSE ids

\* One request is handled at a time.  A caller can put any id in a path or a
\* body: the id of a row of any table, or an id no row has (yet).  Boards are
\* created as the home page creates them, with a name only (OrgNext has the
\* requests that name an organization).
Next ==
    \/ \E auth \in AuthHeaders : Arrives /\ Server /\ GetBoards(auth)
    \/ \E auth \in AuthHeaders :
          \E name \in BodyRead(auth, CreateNames \cup {Missing}) :
             Arrives /\ Server /\ PostBoards(auth, name, NoId)
    \/ \E auth \in AuthHeaders :
          \E name \in BodyRead(auth, CreateNames \cup {Missing}),
             boardId \in IdRead(auth, BoardIds \cup {NoId}) :
                Arrives /\ Server /\ PostLists(auth, name, boardId)
    \/ \E auth \in AuthHeaders :
          \E id \in IdRead(auth, ListIds \cup BoardIds),
             name \in BodyRead(auth, UpdateNames \cup {Missing}) :
                Arrives /\ Server /\ PutList(auth, id, name)
    \/ \E auth \in AuthHeaders :
          \E id \in IdRead(auth, ListIds \cup BoardIds) :
             Arrives /\ Server /\ DeleteList(auth, id)
    \/ \E auth \in AuthHeaders :
          \E title \in BodyRead(auth, CreateNames \cup {Missing}),
             listId \in IdRead(auth, ListIds \cup {NoId}) :
                Arrives /\ Server /\ PostCards(auth, title, listId)
    \/ \E auth \in AuthHeaders :
          \E id \in IdRead(auth, CardIds \cup ListIds),
             title \in BodyRead(auth, UpdateNames \cup {Missing}) :
                Arrives /\ Server /\ PutCard(auth, id, title)
    \/ \E auth \in AuthHeaders :
          \E id \in IdRead(auth, CardIds \cup ListIds) :
             Arrives /\ Server /\ DeleteCard(auth, id)
    \/ TakeResponse

Spec == Init /\ [][Next]_vars

\* POST /api/boards with an organizationId in the body: the id of any
\* organization, or an id no organization has
OrgNext ==
    \/ \E auth \in AuthHeaders : Arrives /\ Server /\ GetBoards(auth)
    \/ \E auth \in AuthHeaders :
          \E name \in BodyRead(auth, CreateNames \cup {Missing}),
             organizationId \in IdRead(auth, OrgIds \cup {NoId}) :
                Arrives /\ Server /\ PostBoards(auth, name, organizationId)
    \/ TakeResponse

OrgSpec == Init /\ [][OrgNext]_vars

\* ------------------------------------------------- register and login
\* the response to a request of the auth routes, with the credentials sent
AuthResponse(op, email, password, name, status, error, row, body) ==
    [op |-> op, auth |-> [present |-> FALSE, valid |-> FALSE, userId |-> NoUser],
     id |-> NoId, name |-> name, status |-> status, error |-> error, row |-> row,
     body |-> body, email |-> email, password |-> password]

\* lib/database getUserByEmail / prisma.user.findUnique({where: {email}})
getUserByEmail(email) == {u \in users : u.email = email}

\* a registration that does not look for the email first
RegisterResult_NoLookup(email, password, name) ==
    IF email = Missing \/ password = Missing \/ name = Missing
    THEN <<400, "Missing fields">>
    ELSE <<200, "">>

\* status and error of POST /api/auth/register
RegisterResult(email, password, name) ==
    IF email = Missing \/ password = Missing \/ name = Missing
    THEN <<400, "Missing fields">>
    ELSE IF getUserByEmail(email) # {}
    THEN <<409, "Email already in use">>
    ELSE <<200, "">>

Register(email, password, name) ==
    LET res == RegisterResult(email, password, name)
        op == "POST /auth/register"
    IN /\ resp = Idle
       /\ before' = Tables
       /\ IF res[1] = 200
          THEN \E salt \in Salts :
                 LET hashed == Digest(password, salt)
                     user == [id |-> UserIdOf[email], email |-> email,
                              password |-> hashed, name |-> name]
                 IN /\ users' = users \cup {user}
                    /\ resp' = AuthResponse(op, email, password, name, 200, "",
                                  {[id |-> user.id, email |-> user.email, name |-> user.name]},
                                  NoBody)
          ELSE /\ resp' = AuthResponse(op, email, password, name, res[1], res[2],
                                       NoRow, NoBody)
               /\ UNCHANGED users
       /\ UNCHANGED <<store, inflight, page, drop>>

\* a login that tells an unknown email from a wrong password
LoginResult_UserNotFound(email, password) ==
    IF email = Missing \/ password = Missing THEN <<400, "Missing fields">>
    ELSE IF getUserByEmail(email) = {} THEN <<404, "User not found">>
    ELSE IF \E u \in getUserByEmail(email) : ~Compare(password, u.password)
    THEN <<401, "Invalid credentials">>
    ELSE <<200, "">>

\* status and error of POST /api/auth/login
LoginResult(email, password) ==
    IF email = Missing \/ password = Missing THEN <<400, "Missing fields">>
    ELSE IF getUserByEmail(email) = {} THEN <<401, "Invalid credentials">>
    ELSE IF \E u \in getUserByEmail(email) : ~Compare(password, u.password)
    THEN <<401, "Invalid credentials">>
    ELSE <<200, "">>

Login(email, password) ==
    LET res == LoginResult(email, password)
        op == "POST /auth/login"
    IN /\ resp = Idle
       /\ before' = Tables
       /\ resp' = IF res[1] = 200
                  THEN LET user == CHOOSE u \in getUserByEmail(email) : TRUE
                       IN AuthResponse(op, email, password, Missing, 200, "",
                             {[id |-> user.id, email |-> user.email, name |-> user.name]},
                             [token |-> ValidHeader(user.id)])
                  ELSE AuthResponse(op, email, password, Missing, res[1], res[2],
                                    NoRow, NoBody)
       /\ UNCHANGED <<store, users, inflight, page, drop>>

\* nobody has registered yet
AuthInit ==
    /\ users = {}
    /\ page = NoPage
    /\ drop = NoDrop
    /\ inflight = [p \in Procs |-> NotStarted]
    /\ organizations = {}
    /\ boards = {}
    /\ lists = {}
    /\ cards = {}
    /\ nextId = [t \in {"org", "board", "list", "card"} |-> 0]
    /\ resp = Idle
    /\ before = Tables

AuthNext ==
    \/ \E email \in Emails \cup {Missing}, password \in Passwords \cup {Missing},
          name \in {"n", Missing} : Register(email, password, name)
    \/ \E email \in Emails \cup {Missing}, password \in Passwords \cup {Missing} :
          Login(email, password)
    \/ TakeResponse

AuthSpec == AuthInit /\ [][AuthNext]_vars

\* ------------------------------------------------ requests without a token
\* api/_middleware.ts: where Next.js runs it, a request to a protected path
\* is answered before its route handler is invoked
Middleware(op, auth, id, name) ==
    /\ ~auth.present \/ ~auth.valid
    /\ resp' = Response(op, auth, id, name, 401,
                        IF ~auth.present THEN "Missing token" ELSE "Invalid token",
                        NoRow, NoBody)
    /\ UNCHANGED store

Routes == {"GET /boards", "POST /boards", "POST /lists", "PUT /lists/:id",
           "DELETE /lists/:id", "POST /cards", "PUT /cards/:id", "DELETE /cards/:id"}

\* the user signed in on a browser (AuthContext holds one token)
SessionUsers == {"u1"}

\* no header, a malformed token, and a token that names a user but has a bad
\* signature or is expired, next to the good token of the user signed in
GateHeaders ==
    {[present |-> FALSE, valid |-> FALSE, userId |-> NoUser],
     [present |-> TRUE, valid |-> FALSE, userId |-> NoUser]}
    \cup {[present |-> TRUE, valid |-> v, userId |-> u] : v \in BOOLEAN, u \in SessionUsers}

\* every route, called with and without a good token, with every body
GateNext ==
    \/ \E auth \in GateHeaders : Arrives /\ Server /\ GetBoards(auth)
    \/ \E auth \in GateHeaders, name \in CreateNames \cup {Missing},
          organizationId \in OrgIds \cup {NoId} :
             Arrives /\ Server /\ PostBoards(auth, name, organizationId)
    \/ \E auth \in GateHeaders, name \in CreateNames \cup {Missing},
          boardId \in BoardIds \cup {NoId} : Arrives /\ Server /\ PostLists(auth, name, boardId)
    \/ \E auth \in GateHeaders, id \in ListIds \cup BoardIds,
          name \in UpdateNames \cup {Missing} : Arrives /\ Server /\ PutList(auth, id, name)
    \/ \E auth \in GateHeaders, id \in ListIds \cup BoardIds :
          Arrives /\ Server /\ DeleteList(auth, id)
    \/ \E auth \in GateHeaders, title \in CreateNames \cup {Missing},
          listId \in ListIds \cup {NoId} : Arrives /\ Server /\ PostCards(auth, title, listId)
    \/ \E auth \in GateHeaders, id \in CardIds \cup ListIds,
          title \in UpdateNames \cup {Missing} : Arrives /\ Server /\ PutCard(auth, id, title)
    \/ \E auth \in GateHeaders, id \in CardIds \cup ListIds :
          Arrives /\ Server /\ DeleteCard(auth, id)
    \/ \E op \in Routes, auth \in GateHeaders, id \in ListIds \cup {NoId},
          name \in CreateNames \cup {Missing} :
             Arrives /\ Server /\ Middleware(op, auth, id, name)
    \/ TakeResponse

GateSpec == Init /\ [][GateNext]_vars

\* requests that carry a token of a user
ValidHeaders == {ValidHeader(u) : u \in UserIds}

\* ------------------------------------------------- deleting a boards row
\* No route deletes a board; the schema lets the owner delete the row
\* (policy "Users can delete own boards").  What the statement does to the
\* lists and cards under the board is the foreign keys' ON DELETE action.
SqlResult(op, id, error) ==
    Response(op, [present |-> FALSE, valid |-> FALSE, userId |-> NoUser],
             id, Missing, 0, error, NoRow, NoBody)

\* supabase-setup.sql: lists.board_id and cards.list_id are ON DELETE CASCADE
DeleteBoardCascade(id) ==
    LET gone == {l.id : l \in ListsOf(id)}
    IN /\ \E b \in boards : b.id = id
       /\ boards' = {b \in boards : b.id # id}
       /\ lists' = {l \in lists : l.boardId # id}
       /\ cards' = {c \in cards : c.listId \notin gone}
       /\ resp' = SqlResult("DELETE FROM boards", id, "")
       /\ UNCHANGED <<organizations, nextId>>

\* the Prisma migration: List_boardId_fkey is ON DELETE RESTRICT, the
\* statement fails while a list references the board
DeleteBoardRestrict(id) ==
    /\ \E b \in boards : b.id = id
    /\ IF ListsOf(id) = {}
       THEN /\ boards' = {b \in boards : b.id # id}
            /\ resp' = SqlResult("DELETE FROM Board", id, "")
       ELSE /\ boards' = boards
            /\ resp' = SqlResult("DELETE FROM Board", id, "List_boardId_fkey")
    /\ UNCHANGED <<organizations, lists, cards, nextId>>

\* boards, lists and cards are created through the routes, and board rows are
\* deleted in the database, under either schema
SqlNext ==
    \/ \E auth \in ValidHeaders, name \in CreateNames :
          Arrives /\ Server /\ PostBoards(auth, name, NoId)
    \/ \E auth \in ValidHeaders, name \in CreateNames, boardId \in BoardIds :
          Arrives /\ Server /\ PostLists(auth, name, boardId)
    \/ \E auth \in ValidHeaders, title \in CreateNames, listId \in ListIds :
          Arrives /\ Server /\ PostCards(auth, title, listId)
    \/ \E id \in BoardIds : Arrives /\ Server /\ DeleteBoardCascade(id)
    \/ \E id \in BoardIds : Arrives /\ Server /\ DeleteBoardRestrict(id)
    \/ TakeResponse

SqlSpec == Init /\ [][SqlNext]_vars

\* ------------------------------------------- requests that carry a body
\* every route that reads fields from a JSON body, called with a verified
\* token where it needs one, each field present or absent
BodyNext ==
    \/ \E auth \in ValidHeaders, name \in CreateNames \cup {Missing} :
          Arrives /\ Server /\ PostBoards(auth, name, NoId)
    \/ \E auth \in ValidHeaders, name \in CreateNames \cup {Missing},
          boardId \in BoardIds \cup {NoId} :
             Arrives /\ Server /\ PostLists(auth, name, boardId)
    \/ \E auth \in ValidHeaders, id \in ListIds \cup BoardIds,
          name \in UpdateNames \cup {Missing} :
             Arrives /\ Server /\ PutList(auth, id, name)
    \/ \E auth \in ValidHeaders, title \in CreateNames \cup {Missing},
          listId \in ListIds \cup {NoId} :
             Arrives /\ Server /\ PostCards(auth, title, listId)
    \/ \E auth \in ValidHeaders, id \in CardIds \cup ListIds,
          title \in UpdateNames \cup {Missing} :
             Arrives /\ Server /\ PutCard(auth, id, title)
    \/ \E email \in Emails \cup {Missing}, password \in Passwords \cup {Missing},
          name \in {"n", Missing} : Register(email, password, name)
    \/ \E email \in Emails \cup {Missing}, password \in Passwords \cup {Missing} :
          Login(email, password)
    \/ TakeResponse

BodySpec == Init /\ [][BodyNext]_vars

\* ------------------------------------------------- a store call that fails
\* The handlers call the store once per statement, outside any transaction;
\* a call that fails throws into the handler's catch, which answers 500.
\* failAt names the call that fails; the calls before it have taken effect.

\* POST /api/boards by a user with a name and no organizationId
PostBoardsFault(auth, name, failAt) ==
    LET userId == getUserIdFromToken(auth)
        op == "POST /boards"
        hasOrg == \E o \in organizations : o.ownerId = userId
        newOrg == [id |-> OrgBase + nextId["org"] + 1, ownerId |-> userId]
        failed == Response(op, auth, NoId, name, 500, "Failed to create board", NoRow, NoBody)
    IN /\ userId # NoUser
       /\ name # Missing
       /\ resp' = failed
       /\ CASE failAt = "organization.findFirst" -> UNCHANGED store
            [] failAt = "organization.create" -> ~hasOrg /\ UNCHANGED store
            [] failAt = "board.create" ->
                  IF hasOrg
                  THEN UNCHANGED store
                  ELSE /\ nextId["org"] < MaxOrgs
                       /\ organizations' = organizations \cup {newOrg}
                       /\ nextId' = [nextId EXCEPT !["org"] = @ + 1]
                       /\ UNCHANGED <<boards, lists, cards>>

\* POST /api/lists with a name and a boardId
PostListsFault(auth, name, boardId, failAt) ==
    LET userId == getUserIdFromToken(auth)
        op == "POST /lists"
    IN /\ userId # NoUser
       /\ name # Missing /\ boardId # NoId
       /\ failAt # "verifyBoardOwnership" => verifyBoardOwnership(boardId, userId)
       /\ resp' = Response(op, auth, boardId, name, 500, "Failed to create list",
                           NoRow, NoBody)
       /\ UNCHANGED store

\* DELETE /api/lists/[id]; deleteList does not look at the error of its first
\* statement (the cards), and throws the error of its second (the list)
DeleteListFault(auth, id, failAt) ==
    LET userId == getUserIdFromToken(auth)
        op == "DELETE /lists/:id"
        failed == Response(op, auth, id, Missing, 500, "Failed to delete list", NoRow, NoBody)
    IN /\ userId # NoUser
       /\ CASE failAt = "verifyBoardOwnership" -> resp' = failed /\ UNCHANGED store
            [] failAt = "cards.delete" ->
                  /\ verifyBoardOwnership(id, userId)
                  \* the list goes, and with it (cards.list_id ON DELETE CASCADE) its cards
                  /\ lists' = {l \in lists : l.id # id}
                  /\ cards' = {c \in cards : c.listId # id}
                  /\ resp' = Response(op, auth, id, Missing, 200, "", NoRow, NoBody)
                  /\ UNCHANGED <<organizations, boards, nextId>>
            [] failAt = "lists.delete" ->
                  /\ verifyBoardOwnership(id, userId)
                  /\ cards' = {c \in cards : c.listId # id}
                  /\ resp' = failed
                  /\ UNCHANGED <<organizations, boards, lists, nextId>>

FaultNext ==
    \/ \E auth \in ValidHeaders, name \in CreateNames :
          Arrives /\ Server /\ PostBoards(auth, name, NoId)
    \/ \E auth \in ValidHeaders, name \in CreateNames, boardId \in BoardIds :
          Arrives /\ Server /\ PostLists(auth, name, boardId)
    \/ \E auth \in ValidHeaders, title \in CreateNames, listId \in ListIds :
          Arrives /\ Server /\ PostCards(auth, title, listId)
    \/ \E auth \in ValidHeaders, name \in CreateNames,
          failAt \in {"organization.findFirst", "organization.create", "board.create"} :
             Arrives /\ Server /\ PostBoardsFault(auth, name, failAt)
    \/ \E auth \in ValidHeaders, name \in CreateNames, boardId \in BoardIds,
          failAt \in {"verifyBoardOwnership", "getListPosition", "createList"} :
             Arrives /\ Server /\ PostListsFault(auth, name, boardId, failAt)
    \/ \E auth \in ValidHeaders, id \in ListIds \cup BoardIds,
          failAt \in {"verifyBoardOwnership", "cards.delete", "lists.delete"} :
             Arrives /\ Server /\ DeleteListFault(auth, id, failAt)
    \/ TakeResponse

FaultSpec == Init /\ [][FaultNext]_vars

\* ------------------------------------------- create requests in parallel
\* Each request is handled on its own and may run while others run.  A
\* handler gives way at every await: after the access check, after the read
\* of the highest position, after the insert.

\* POST /api/lists up to the access check
ListVerify(p, auth, name, boardId) ==
    LET userId == getUserIdFromToken(auth)
        res == PostListsResult(userId, name, boardId)
    IN /\ inflight[p].pc = "idle"
       /\ inflight' = [inflight EXCEPT ![p] =
             IF res[1] = 200
             THEN Pending("verified", "POST /lists", userId, name, boardId, 0, 0, "")
             ELSE Pending("done", "POST /lists", userId, name, boardId, 0, res[1], res[2])]
       /\ UNCHANGED <<store, resp, before, page, drop, users>>

\* const lastPosition = await getListPosition(boardId)
ListRead(p) ==
    /\ inflight[p].pc = "verified"
    /\ inflight[p].op = "POST /lists"
    /\ inflight' = [inflight EXCEPT ![p].pc = "read",
                                    ![p].position = getListPosition(inflight[p].parent) + 1]
    /\ UNCHANGED <<store, resp, before, page, drop, users>>

\* await createList(name, boardId, position); lists.board_id references boards
ListInsert(p) ==
    LET r == inflight[p]
    IN /\ r.pc = "read"
       /\ r.op = "POST /lists"
       /\ IF \E b \in boards : b.id = r.parent
          THEN /\ nextId["list"] < MaxLists
               /\ lists' = lists \cup {createList(r.name, r.parent, r.position)}
               /\ nextId' = [nextId EXCEPT !["list"] = @ + 1]
               /\ inflight' = [inflight EXCEPT ![p].pc = "done", ![p].status = 200]
          ELSE /\ inflight' = [inflight EXCEPT ![p].pc = "done", ![p].status = 500,
                                               ![p].error = "Failed to create list"]
               /\ UNCHANGED <<lists, nextId>>
       /\ UNCHANGED <<organizations, boards, cards, resp, before, page, drop, users>>

\* POST /api/cards up to the access check
CardVerify(p, auth, title, listId) ==
    LET userId == getUserIdFromToken(auth)
        res == PostCardsResult(userId, title, listId)
    IN /\ inflight[p].pc = "idle"
       /\ inflight' = [inflight EXCEPT ![p] =
             IF res[1] = 200
             THEN Pending("verified", "POST /cards", userId, title, listId, 0, 0, "")
             ELSE Pending("done", "POST /cards", userId, title, listId, 0, res[1], res[2])]
       /\ UNCHANGED <<store, resp, before, page, drop, users>>

\* const lastCard = await prisma.card.findFirst(...); position = ...
CardRead(p) ==
    /\ inflight[p].pc = "verified"
    /\ inflight[p].op = "POST /cards"
    /\ inflight' = [inflight EXCEPT ![p].pc = "read",
                                    ![p].position = nextCardPosition(inflight[p].parent)]
    /\ UNCHANGED <<store, resp, before, page, drop, users>>

\* the insert into a cards table whose list_id references nothing
CardInsert_NoForeignKey(p) ==
    LET r == inflight[p]
    IN /\ r.pc = "read"
       /\ r.op = "POST /cards"
       /\ nextId["card"] < MaxCards
       /\ cards' = cards \cup {[id |-> CardBase + nextId["card"] + 1, title |-> r.name,
                                listId |-> r.parent, position |-> r.position]}
       /\ nextId' = [nextId EXCEPT !["card"] = @ + 1]
       /\ inflight' = [inflight EXCEPT ![p].pc = "done", ![p].status = 200]
       /\ UNCHANGED <<organizations, boards, lists, resp, before, page, drop, users>>

\* await prisma.card.create(...); Card.listId references List
CardInsert(p) ==
    LET r == inflight[p]
    IN /\ r.pc = "read"
       /\ r.op = "POST /cards"
       /\ IF \E l \in lists : l.id = r.parent
          THEN /\ nextId["card"] < MaxCards
               /\ cards' = cards \cup {[id |-> CardBase + nextId["card"] + 1, title |-> r.name,
                                        listId |-> r.parent, position |-> r.position]}
               /\ nextId' = [nextId EXCEPT !["card"] = @ + 1]
               /\ inflight' = [inflight EXCEPT ![p].pc = "done", ![p].status = 200]
          ELSE /\ inflight' = [inflight EXCEPT ![p].pc = "done", ![p].status = 500,
                                               ![p].error = "Failed to create card"]
               /\ UNCHANGED <<cards, nextId>>
       /\ UNCHANGED <<organizations, boards, lists, resp, before, page, drop, users>>

\* the response of a finished request is returned
Return(p) ==
    /\ inflight[p].pc = "done"
    /\ inflight' = [inflight EXCEPT ![p] = NotStarted]
    /\ UNCHANGED <<store, resp, before, page, drop, users>>

ConcNext ==
    \/ \E auth \in ValidHeaders, name \in CreateNames :
          Arrives /\ Server /\ PostBoards(auth, name, NoId)
    \/ TakeResponse
    \/ \E p \in Procs, auth \in ValidHeaders, name \in CreateNames, boardId \in BoardIds :
          ListVerify(p, auth, name, boardId)
    \/ \E p \in Procs : ListRead(p)
    \/ \E p \in Procs : ListInsert(p)
    \/ \E p \in Procs, auth \in ValidHeaders, title \in CreateNames, listId \in ListIds :
          CardVerify(p, auth, title, listId)
    \/ \E p \in Procs : CardRead(p)
    \/ \E p \in Procs : CardInsert(p)
    \/ \E p \in Procs : Return(p)

ConcSpec == Init /\ [][ConcNext]_vars

\* --------------------------------------- a delete in parallel with a create
\* DELETE /api/lists/[id] up to the access check
DeleteVerify(p, auth, id) ==
    LET userId == getUserIdFromToken(auth)
        res == DeleteListResult(userId, id)
    IN /\ inflight[p].pc = "idle"
       /\ inflight' = [inflight EXCEPT ![p] =
             IF res[1] = 200
             THEN Pending("verified", "DELETE /lists/:id", userId, Missing, id, 0, 0, "")
             ELSE Pending("done", "DELETE /lists/:id", userId, Missing, id, 0, res[1], res[2])]
       /\ UNCHANGED <<store, resp, before, page, drop, users>>

\* deleteList, first statement: delete from cards where list_id = id
DeleteCards(p) ==
    /\ inflight[p].pc = "verified"
    /\ inflight[p].op = "DELETE /lists/:id"
    /\ cards' = {c \in cards : c.listId # inflight[p].parent}
    /\ inflight' = [inflight EXCEPT ![p].pc = "cards"]
    /\ UNCHANGED <<organizations, boards, lists, nextId, resp, before, page, drop, users>>

\* deleteList, second statement: delete from lists where id = id; the cards
\* that reference the row go with it (cards.list_id ON DELETE CASCADE)
DeleteRow(p) ==
    /\ inflight[p].pc = "cards"
    /\ inflight[p].op = "DELETE /lists/:id"
    /\ lists' = {l \in lists : l.id # inflight[p].parent}
    /\ cards' = {c \in cards : c.listId # inflight[p].parent}
    /\ inflight' = [inflight EXCEPT ![p].pc = "done", ![p].status = 200]
    /\ UNCHANGED <<organizations, boards, nextId, resp, before, page, drop, users>>

\* the tokens of the user whose requests run in parallel
SessionHeaders == {ValidHeader(u) : u \in SessionUsers}

\* no request is running
Quiet == resp = Idle /\ \A p \in Procs : inflight[p] = NotStarted

\* one board and its lists are created one at a time while nothing else runs; cards
\* are created and lists deleted by requests that run at the same time and
\* name a row the page shows
DeleteNext ==
    \/ \E auth \in SessionHeaders, name \in CreateNames :
          /\ Quiet
          /\ boards = {}
          /\ Arrives /\ Server /\ PostBoards(auth, name, NoId)
    \/ \E auth \in SessionHeaders, name \in CreateNames, boardId \in BoardIds :
          Quiet /\ Arrives /\ Server /\ PostLists(auth, name, boardId)
    \/ TakeResponse
    \/ \E p \in Procs, auth \in SessionHeaders, title \in CreateNames,
          listId \in {l.id : l \in lists} :
             resp = Idle /\ CardVerify(p, auth, title, listId)
    \/ \E p \in Procs : CardRead(p)
    \/ \E p \in Procs : CardInsert(p)
    \/ \E p \in Procs, auth \in SessionHeaders,
          id \in {l.id : l \in lists} \cup {b.id : b \in boards} :
             resp = Idle /\ DeleteVerify(p, auth, id)
    \/ \E p \in Procs : DeleteCards(p)
    \/ \E p \in Procs : DeleteRow(p)
    \/ \E p \in Procs : Return(p)

DeleteSpec == Init /\ [][DeleteNext]_vars

\* the same requests, and rows of boards deleted in the database (under
\* either schema) while they run
IntegrityNext ==
    \/ DeleteNext
    \/ \E id \in BoardIds : Arrives /\ Server /\ DeleteBoardCascade(id)
    \/ \E id \in BoardIds : Arrives /\ Server /\ DeleteBoardRestrict(id)

IntegritySpec == Init /\ [][IntegrityNext]_vars

\* ------------------------------------------- board creations in parallel
\* POST /api/boards without organizationId up to the organization lookup;
\* parent holds orgId once it is known
BoardLookup(p, auth, name) ==
    LET userId == getUserIdFromToken(auth)
        op == "POST /boards"
    IN /\ inflight[p].pc = "idle"
       /\ IF userId = NoUser
          THEN inflight' = [inflight EXCEPT ![p] =
                  Pending("done", op, userId, name, NoId, 0, 401, "Unauthorized")]
          ELSE IF name = Missing
          THEN inflight' = [inflight EXCEPT ![p] =
                  Pending("done", op, userId, name, NoId, 0, 400, "Board name is required")]
          ELSE \E org \in ResolveOrg(userId, NoId) :
                  inflight' = [inflight EXCEPT ![p] =
                     IF org.new
                     THEN Pending("no org", op, userId, name, NoId, 0, 0, "")
                     ELSE Pending("resolved", op, userId, name, org.id, 0, 0, "")]
       /\ UNCHANGED <<store, resp, before, page, drop, users>>

\* const newOrg = await prisma.organization.create(...); orgId = newOrg.id
OrgCreate(p) ==
    LET r == inflight[p]
        id == OrgBase + nextId["org"] + 1
    IN /\ r.pc = "no org"
       /\ nextId["org"] < MaxOrgs
       /\ organizations' = organizations \cup {[id |-> id, ownerId |-> r.userId]}
       /\ nextId' = [nextId EXCEPT !["org"] = @ + 1]
       /\ inflight' = [inflight EXCEPT ![p].pc = "resolved", ![p].parent = id]
       /\ UNCHANGED <<boards, lists, cards, resp, before, page, drop, users>>

\* const board = await prisma.board.create(...)
BoardCreate(p) ==
    LET r == inflight[p]
    IN /\ r.pc = "resolved"
       /\ r.op = "POST /boards"
       /\ nextId["board"] < MaxBoards
       /\ boards' = boards \cup {[id |-> BoardBase + nextId["board"] + 1, name |-> r.name,
                                  organizationId |-> r.parent, ownerId |-> r.userId]}
       /\ nextId' = [nextId EXCEPT !["board"] = @ + 1]
       /\ inflight' = [inflight EXCEPT ![p].pc = "done", ![p].status = 200]
       /\ UNCHANGED <<organizations, lists, cards, resp, before, page, drop, users>>

BoardRaceNext ==
    \/ \E p \in Procs, auth \in AuthHeaders :
          \E name \in BodyRead(auth, CreateNames \cup {Missing}) :
             BoardLookup(p, auth, name)
    \/ \E p \in Procs : OrgCreate(p)
    \/ \E p \in Procs : BoardCreate(p)
    \/ \E p \in Procs : Return(p)

BoardRaceSpec == Init /\ [][BoardRaceNext]_vars

\* ------------------------------------------- registrations in parallel
\* the register handler between two awaits, with the fields of its body
Registering(pc, email, password, name, status, error) ==
    [pc |-> pc, op |-> "POST /auth/register", userId |-> NoUser, name |-> name,
     parent |-> NoId, position |-> 0, status |-> status, error |-> error,
     email |-> email, password |-> password]

\* POST /api/auth/register up to the lookup of the email
RegisterLookup(p, email, password, name) ==
    LET res == RegisterResult(email, password, name)
    IN /\ inflight[p].pc = "idle"
       /\ inflight' = [inflight EXCEPT ![p] =
             IF res[1] = 200
             THEN Registering("looked up", email, password, name, 0, "")
             ELSE Registering("done", email, password, name, res[1], res[2])]
       /\ UNCHANGED <<store, resp, before, page, drop, users>>

\* const hashed = await bcrypt.hash(password, 10)
RegisterHash(p) ==
    /\ inflight[p].pc = "looked up"
    /\ \E salt \in Salts :
          inflight' = [inflight EXCEPT ![p].pc = "hashed",
                                       ![p].password = Digest(inflight[p].password, salt)]
    /\ UNCHANGED <<store, resp, before, page, drop, users>>

\* await createUser(email, hashed, name); users.email is UNIQUE, the insert
\* of a second row with the email fails and the handler answers 500
RegisterInsert(p) ==
    LET r == inflight[p]
        user == [id |-> UserIdOf[r.email], email |-> r.email,
                 password |-> r.password, name |-> r.name]
    IN /\ r.pc = "hashed"
       /\ IF getUserByEmail(r.email) = {}
          THEN /\ users' = users \cup {user}
               /\ inflight' = [inflight EXCEPT ![p].pc = "done", ![p].status = 200]
          ELSE /\ inflight' = [inflight EXCEPT ![p].pc = "done", ![p].status = 500,
                                               ![p].error = "Registration failed"]
               /\ UNCHANGED users
       /\ UNCHANGED <<store, resp, before, page, drop>>

RegisterNext ==
    \/ \E p \in Procs, email \in Emails \cup {Missing}, password \in Passwords \cup {Missing},
          name \in {"n", Missing} : RegisterLookup(p, email, password, name)
    \/ \E p \in Procs : RegisterHash(p)
    \/ \E p \in Procs : RegisterInsert(p)
    \/ \E p \in Procs : Return(p)

RegisterSpec == AuthInit /\ [][RegisterNext]_vars

\* ----------------------------------------------------------- board page
\* findIndex, counted from 1; 0 when no element has the id
FindIndex(cs, id) ==
    IF \E i \in 1..Len(cs) : cs[i].id = id
    THEN CHOOSE i \in 1..Len(cs) : cs[i].id = id /\ \A j \in 1..(i - 1) : cs[j].id # id
    ELSE 0

RECURSIVE Filter(_, _)
\* a filter that removes nothing
Filter_KeepAll(cs, id) == cs

\* cards.filter(c => c.id !== id)
Filter(cs, id) ==
    IF cs = <<>> THEN <<>>
    ELSE IF Head(cs).id = id THEN Filter(Tail(cs), id)
    ELSE <<Head(cs)>> \o Filter(Tail(cs), id)

\* splice replaced by push: the card always goes to the end
Splice_Push(cs, k, card) == Append(cs, card)

\* splice with a delete count of 1: the card takes the place of the k-th element
Splice_Replace(cs, k, card) ==
    IF k > Len(cs) THEN Append(cs, card)
    ELSE SubSeq(cs, 1, k - 1) \o <<card>> \o SubSeq(cs, k + 1, Len(cs))

\* cards.splice(k - 1, 0, card): card goes before the k-th element, or to the
\* end when the array is shorter
Splice(cs, k, card) ==
    IF k > Len(cs) THEN Append(cs, card)
    ELSE SubSeq(cs, 1, k - 1) \o <<card>> \o SubSeq(cs, k, Len(cs))

\* the forEach of handleDragEnd: the last list that holds the id, 0 for none
ListIdxOf(ls, id) ==
    LET hits == {i \in 1..Len(ls) : FindIndex(ls[i].cards, id) # 0}
    IN IF hits = {} THEN 0 ELSE Max(hits)

\* a handler that takes the card out of its list before it looks for the
\* drop target, and has no early return for a drop of the card on itself
DragEnd_FilterFirst(ls, active, over) ==
    LET sourceListIdx == ListIdxOf(ls, active)
    IN IF over = NoId \/ sourceListIdx = 0 THEN ls
       ELSE LET card == ls[sourceListIdx].cards[FindIndex(ls[sourceListIdx].cards, active)]
                newLists == [i \in 1..Len(ls) |->
                               IF i = sourceListIdx
                               THEN [ls[i] EXCEPT !.cards = Filter(ls[i].cards, active)]
                               ELSE ls[i]]
                destListIdx == ListIdxOf(newLists, over)
            IN IF destListIdx = 0 THEN newLists
               ELSE [newLists EXCEPT ![destListIdx].cards =
                        Splice(@, FindIndex(@, over), card)]

\* the lists handleDragEnd passes to setBoard, ls when it returns early
DragEnd(ls, active, over) ==
    LET sourceListIdx == ListIdxOf(ls, active)
        destListIdx == ListIdxOf(ls, over)
        cardIdx == IF sourceListIdx = 0 THEN 0 ELSE FindIndex(ls[sourceListIdx].cards, active)
        destCardIdx == IF destListIdx = 0 THEN 0 ELSE FindIndex(ls[destListIdx].cards, over)
    IN IF over = NoId \/ active = over THEN ls
       ELSE IF sourceListIdx = 0 \/ cardIdx = 0 THEN ls
       ELSE IF destListIdx = 0 \/ destCardIdx = 0 THEN ls
       ELSE IF sourceListIdx = destListIdx /\ cardIdx = destCardIdx THEN ls
       ELSE LET card == ls[sourceListIdx].cards[cardIdx]
                newLists == [i \in 1..Len(ls) |->
                               IF i = sourceListIdx
                               THEN [ls[i] EXCEPT !.cards = Filter(ls[i].cards, active)]
                               ELSE ls[i]]
            IN [newLists EXCEPT ![destListIdx].cards =
                   Splice(newLists[destListIdx].cards, destCardIdx, card)]

\* handleDragEnd(event): nothing is sent to the server
HandleDragEnd(active, over) ==
    /\ drop = NoDrop
    /\ page' = IF page.loaded
               THEN [page EXCEPT !.lists = DragEnd(page.lists, active, over)]
               ELSE page
    /\ drop' = [active |-> active, over |-> over, lists |-> page.lists]
    /\ UNCHANGED <<store, resp, before, inflight, users>>

\* the board with id in a response body of GET /api/boards, as the page
\* keeps it: its lists, each with its cards
BoardIn(body, id) ==
    [i \in 1..Len(body.lists[id]) |->
        [row |-> body.lists[id][i], cards |-> body.cards[body.lists[id][i].id]]]

\* fetchBoard, run when the page is opened with a token for board params.id
FetchBoard(u, id) ==
    /\ Arrives
    /\ GetBoards(ValidHeader(u))
    /\ page' = IF resp'.status # 200
               THEN [NoPage EXCEPT !.user = u, !.id = id, !.error = "Failed to fetch board"]
               ELSE IF \E i \in 1..Len(resp'.body.boards) : resp'.body.boards[i].id = id
               THEN [user |-> u, id |-> id, loaded |-> TRUE,
                     lists |-> BoardIn(resp'.body, id), error |-> ""]
               ELSE [NoPage EXCEPT !.user = u, !.id = id, !.error = "Board not found"]
    /\ drop' = NoDrop
    /\ UNCHANGED users

\* addList: POST /api/lists, the new list is appended to the board state
AddList(name) ==
    /\ page.loaded
    /\ Arrives
    /\ PostLists(ValidHeader(page.user), name, page.id)
    /\ page' = IF resp'.status = 200
               THEN [page EXCEPT !.lists =
                        Append(@, [row |-> CHOOSE l \in resp'.row : TRUE, cards |-> <<>>])]
               ELSE page
    /\ UNCHANGED <<drop, users>>

\* addCard(listId): POST /api/cards, the new card is appended to its list
AddCard(listId, title) ==
    /\ page.loaded
    /\ Arrives
    /\ PostCards(ValidHeader(page.user), title, listId)
    /\ page' = IF resp'.status = 200
               THEN [page EXCEPT !.lists =
                        [i \in 1..Len(@) |->
                            IF @[i].row.id = listId
                            THEN [@[i] EXCEPT !.cards =
                                     Append(@, CHOOSE c \in resp'.row : TRUE)]
                            ELSE @[i]]]
               ELSE page
    /\ UNCHANGED <<drop, users>>

\* the page is rendered with the state the handler set; the next drag starts
\* from what is shown
Render ==
    /\ drop # NoDrop
    /\ drop' = NoDrop
    /\ UNCHANGED <<store, resp, before, inflight, page, users>>

\* the ids of the lists the page shows
PageListIds == {page.lists[i].row.id : i \in 1..Len(page.lists)}

\* The user signed in on the browser creates a board, opens its page and works
\* on it, one thing at a time: a request is made, and a drag starts, when the
\* response of the last request was taken and the page is rendered.  Cards
\* are the draggable items, cards and lists the drop targets; a drop outside
\* every target has no `over`.
AtRest == resp = Idle /\ drop = NoDrop

ClientNext ==
    \/ \E u \in SessionUsers, name \in CreateNames :
          /\ AtRest
          /\ getBoardsByOwner(u) = {}
          /\ Arrives /\ Server /\ PostBoards(ValidHeader(u), name, NoId)
    \/ \E u \in SessionUsers, id \in BoardIds : AtRest /\ FetchBoard(u, id)
    \/ \E name \in CreateNames : AtRest /\ AddList(name)
    \/ \E listId \in PageListIds, title \in CreateNames : AtRest /\ AddCard(listId, title)
    \/ \E active \in CardIds \cup ListIds, over \in CardIds \cup ListIds \cup {NoId} :
          AtRest /\ HandleDragEnd(active, over)
    \/ Render
    \/ TakeResponse

ClientSpec == Init /\ [][ClientNext]_vars

\* ================================================================== claims
\* the user a response was computed for
Actor == getUserIdFromToken(resp.auth)

\* the owners of the board that contains list id / card id, in tables T
ListOwners(T, id) ==
    {b.ownerId : b \in {x \in T.boards : \E l \in T.lists : l.id = id /\ l.boardId = x.id}}
CardOwners(T, id) ==
    UNION {ListOwners(T, c.listId) : c \in {x \in T.cards : x.id = id}}

ListWrites == {"PUT /lists/:id", "DELETE /lists/:id"}
CardWrites == {"PUT /cards/:id", "DELETE /cards/:id"}

\* the request being answered is an update or delete, by a user with a valid
\* token, of a list or card under a board of somebody else
ForeignWrite ==
    /\ Actor # NoUser
    /\ \/ resp.op \in ListWrites /\ ListOwners(before, resp.id) \ {Actor} # {}
       \/ resp.op \in CardWrites /\ CardOwners(before, resp.id) \ {Actor} # {}

\* the update carries the field the handler requires (DELETE has no body)
WellFormedWrite ==
    resp.op \in {"PUT /lists/:id", "PUT /cards/:id"} => resp.name # Missing

\* C1 as stated: every update or delete of a list or card under a board of
\* another user is answered 404 and leaves all rows unchanged.
C1_EveryForeignWrite404 ==
    ForeignWrite => resp.status = 404 /\ Tables = before

\* C1 amended: such a request is answered 404 when it carries the required
\* name / title (a DELETE always), 400 when an update lacks it; never 200 or
\* 403; and all rows are unchanged.
C1_ForeignWriteRejected ==
    ForeignWrite =>
        /\ resp.status = IF WellFormedWrite THEN 404 ELSE 400
        /\ WellFormedWrite =>
              resp.error \in {"List not found or access denied",
                              "Card not found or access denied"}
        /\ Tables = before

C1_Witness ==
    /\ ForeignWrite
    /\ WellFormedWrite
    /\ resp.op = "PUT /lists/:id"
    /\ resp.status = 404
    /\ \E c \in cards : c.listId = resp.id

\* C2: PUT /lists/:id with a name, by the owner of the board that contains the
\* list, is answered 200 with the list renamed; DELETE /lists/:id by that owner
\* is answered 200 with the list removed.
C2_OwnerCanWriteList ==
    (Actor # NoUser /\ resp.op \in ListWrites /\ ListOwners(before, resp.id) = {Actor}) =>
        /\ (resp.op = "PUT /lists/:id" /\ resp.name # Missing) =>
              /\ resp.status = 200
              /\ \E l \in lists : l.id = resp.id /\ l.name = resp.name
        /\ resp.op = "DELETE /lists/:id" =>
              /\ resp.status = 200
              /\ ~\E l \in lists : l.id = resp.id

\* C3: PUT /cards/:id with a title, by the owner of the board that contains the
\* card's list, is answered 200 with the card updated; DELETE /cards/:id by
\* that owner is answered 200 with the card removed.
C3_OwnerCanWriteCard ==
    (Actor # NoUser /\ resp.op \in CardWrites /\ CardOwners(before, resp.id) = {Actor}) =>
        /\ (resp.op = "PUT /cards/:id" /\ resp.name # Missing) =>
              /\ resp.status = 200
              /\ \E c \in cards : c.id = resp.id /\ c.title = resp.name
        /\ resp.op = "DELETE /cards/:id" =>
              /\ resp.status = 200
              /\ ~\E c \in cards : c.id = resp.id

\* ids of the rows of every table, and ids that no row of any table has
AllIds == BoardIds \cup ListIds \cup CardIds
RowIds == {b.id : b \in boards} \cup {l.id : l \in lists} \cup {c.id : c \in cards}

\* ids of the boards of other users than u, of their lists and of their cards
HiddenFrom(u) ==
    {b.id : b \in {x \in boards : x.ownerId # u}}
    \cup {l.id : l \in {x \in lists : ListOwners(Tables, x.id) \ {u} # {}}}
    \cup {c.id : c \in {x \in cards : CardOwners(Tables, x.id) \ {u} # {}}}

\* status and error of every operation that takes a board, list or card id
ResultOf(op, userId, id, name) ==
    CASE op = "POST /lists" -> PostListsResult(userId, name, id)
      [] op = "PUT /lists/:id" -> PutListResult(userId, id, name)
      [] op = "DELETE /lists/:id" -> DeleteListResult(userId, id)
      [] op = "POST /cards" -> PostCardsResult(userId, name, id)
      [] op = "PUT /cards/:id" -> PutCardResult(userId, id, name)
      [] op = "DELETE /cards/:id" -> DeleteCardResult(userId, id)

IdOps == {"POST /lists", "PUT /lists/:id", "DELETE /lists/:id",
          "POST /cards", "PUT /cards/:id", "DELETE /cards/:id"}

\* C4: the answer to an operation on an id that lies under another user's
\* board is the answer that operation gives for an id that no row has (same
\* status, same error body), and never a 200 that would carry a row.
C4_HiddenLooksAbsent ==
    (Actor # NoUser /\ resp.op \in IdOps /\ resp.id \in HiddenFrom(Actor)) =>
        /\ resp.status # 200
        /\ Tables = before
        /\ \A ghost \in AllIds \ RowIds :
              <<resp.status, resp.error>> = ResultOf(resp.op, Actor, ghost, resp.name)

C4_Witness ==
    /\ resp.op = "POST /cards"
    /\ Actor # NoUser
    /\ resp.id \in HiddenFrom(Actor)
    /\ resp.status = 404
    /\ (ListIds \ RowIds) # {}
    /\ \E c \in cards : c.id \in HiddenFrom(Actor)

\* the elements of a sequence
Range(f) == {f[i] : i \in DOMAIN f}

\* C5: GET /boards returns exactly the boards owned by the actor, each with
\* exactly its own lists and those with exactly their own cards; nothing of a
\* board of another user is in the body.
C5_GetBoardsOnlyOwn ==
    (resp.op = "GET /boards" /\ resp.status = 200) =>
        LET body == resp.body
        IN /\ Range(body.boards) = {b \in boards : b.ownerId = Actor}
           /\ DOMAIN body.lists = {b.id : b \in Range(body.boards)}
           /\ \A b \in DOMAIN body.lists :
                 /\ Range(body.lists[b]) = {l \in lists : l.boardId = b}
                 /\ \A l \in Range(body.lists[b]) :
                       /\ l.id \in DOMAIN body.cards
                       /\ Range(body.cards[l.id]) = {c \in cards : c.listId = l.id}
           /\ \A l \in DOMAIN body.cards : ListOwners(Tables, l) = {Actor}
           /\ \A l \in DOMAIN body.cards : \A c \in Range(body.cards[l]) :
                 CardOwners(Tables, c.id) = {Actor}

C5_Witness ==
    /\ resp.op = "GET /boards"
    /\ resp.status = 200
    /\ \E c \in cards : CardOwners(Tables, c.id) = {Actor}
    /\ \E c \in cards : CardOwners(Tables, c.id) \ {Actor} # {}

\* C6: a created list gets position max + 1 of the board's lists at the time of
\* the request, 0 when the board had none; the same for a card in its list.
C6_AppendPosition ==
    /\ (resp.op = "POST /lists" /\ resp.status = 200) =>
          \A new \in resp.row :
             LET sib == {l.position : l \in {x \in before.lists : x.boardId = new.boardId}}
             IN /\ new \in lists
                /\ new.position = IF sib = {} THEN 0 ELSE Max(sib) + 1
    /\ (resp.op = "POST /cards" /\ resp.status = 200) =>
          \A new \in resp.row :
             LET sib == {c.position : c \in {x \in before.cards : x.listId = new.listId}}
             IN /\ new \in cards
                /\ new.position = IF sib = {} THEN 0 ELSE Max(sib) + 1

C6_Witness ==
    /\ resp.op = "POST /cards"
    /\ resp.status = 200
    /\ \E new \in resp.row : new.position = 1
    /\ \E l \in lists : l.position = 1

\* C7: ids are handed out in creation order; of two lists of a board, or two
\* cards of a list, the one created later has the larger position.
C7_AppendsIncrease ==
    /\ \A l1, l2 \in lists :
          (l1.boardId = l2.boardId /\ l1.id < l2.id) => l1.position < l2.position
    /\ \A c1, c2 \in cards :
          (c1.listId = c2.listId /\ c1.id < c2.id) => c1.position < c2.position

C7_Witness ==
    /\ \E l1, l2 \in lists : l1.boardId = l2.boardId /\ l1.id < l2.id
    /\ \E c1, c2 \in cards : c1.listId = c2.listId /\ c1.id < c2.id

\* C8: no two lists of a board have the same position and no two cards of a
\* list have the same position.
C8_NoDuplicatePosition ==
    /\ \A l1, l2 \in lists :
          (l1.boardId = l2.boardId /\ l1.position = l2.position) => l1 = l2
    /\ \A c1, c2 \in cards :
          (c1.listId = c2.listId /\ c1.position = c2.position) => c1 = c2

C8_Witness ==
    /\ resp.op \in {"DELETE /lists/:id", "DELETE /cards/:id"}
    /\ resp.status = 200
    /\ \E l1, l2 \in lists : l1.boardId = l2.boardId /\ l1 # l2
    /\ \E c1, c2 \in cards : c1.listId = c2.listId /\ c1 # c2

\* C9: two create requests for the same parent that ran at the same time and
\* were both answered 200 stored their children at different positions.
C9_ParallelAppendsDiffer ==
    \A p, q \in Procs :
        (/\ p # q
         /\ inflight[p].pc = "done" /\ inflight[q].pc = "done"
         /\ inflight[p].status = 200 /\ inflight[q].status = 200
         /\ inflight[p].op = inflight[q].op
         /\ inflight[p].parent = inflight[q].parent)
        => inflight[p].position # inflight[q].position

C12_DropOnItselfIsNoOp ==
    (drop # NoDrop /\ drop.active = drop.over) =>
        /\ page.lists = drop.lists
        /\ Tables = before
        /\ resp = Idle

C12_Witness ==
    /\ drop # NoDrop
    /\ drop.active = drop.over
    /\ page.loaded
    /\ \E i \in 1..Len(drop.lists) :
          /\ Len(drop.lists[i].cards) = MaxCards
          /\ FindIndex(drop.lists[i].cards, drop.active) = 1

\* the stored row of the card with this id (cards are never deleted by the page)
StoredCard(id) == CHOOSE c \in cards : c.id = id

\* C13: after a drop that moved a card, the stored rows say what the page
\* shows: every card shown in a list is stored with that list's id, and of two
\* cards shown in a list the one shown first is stored with the smaller position.
C13_DropIsStored ==
    (drop # NoDrop /\ page.loaded /\ page.lists # drop.lists) =>
        \A i \in 1..Len(page.lists) :
            LET shown == page.lists[i].cards
            IN /\ \A m \in 1..Len(shown) :
                     StoredCard(shown[m].id).listId = page.lists[i].row.id
               /\ \A m, n \in 1..Len(shown) :
                     m < n => StoredCard(shown[m].id).position < StoredCard(shown[n].id).position

\* C14: after a delete of the boards row of B, B is gone, no list of B and no
\* card of a list B had is left, a request that names B is answered 404, and
\* in no state does a list lack its board or a card its list.
C14_BoardDeleteCascades ==
    /\ resp.op \in {"DELETE FROM boards", "DELETE FROM Board"} =>
          /\ ~\E b \in boards : b.id = resp.id
          /\ ~\E l \in lists : l.boardId = resp.id
          /\ ~\E c \in cards : \E l \in before.lists : l.boardId = resp.id /\ c.listId = l.id
          /\ \A u \in UserIds : PostListsResult(u, "a", resp.id)[1] = 404
    /\ \A l \in lists : \E b \in boards : b.id = l.boardId
    /\ \A c \in cards : \E l \in lists : l.id = c.listId

C16_NoTokenNoEffect ==
    (resp.op \in Routes /\ (~resp.auth.present \/ ~resp.auth.valid)) =>
        /\ resp.status = 401
        /\ resp.row = NoRow
        /\ resp.body = NoBody
        /\ Tables = before

C16_Witness ==
    /\ resp.op = "POST /cards"
    /\ resp.auth.present
    /\ ~resp.auth.valid
    /\ resp.auth.userId \in UserIds
    /\ resp.error = "Unauthorized"
    /\ resp.name # Missing
    /\ \E l \in lists : l.id = resp.id /\ ListOwners(Tables, l.id) = {resp.auth.userId}

\* the registration being answered names the email of a stored user
DuplicateEmail ==
    /\ resp.op = "POST /auth/register"
    /\ \E u \in before.users : u.email = resp.email

\* the registration carries email, password and name
CompleteRegistration ==
    resp.email # Missing /\ resp.password # Missing /\ resp.name # Missing

\* C17 as stated: every registration with an email that a stored user has is
\* answered 409; no user row is added and the row of that user is unchanged.
C17_EveryDuplicate409 ==
    DuplicateEmail =>
        /\ resp.status = 409
        /\ resp.row = NoRow
        /\ users = before.users

\* C17 amended: a registration with an email that a stored user has is
\* answered 409 when it carries all three fields and 400 when the password or
\* the name is missing; either way no user row is added and the row of that
\* user is the row it was.
C17_DuplicateEmailRejected ==
    DuplicateEmail =>
        /\ resp.status = IF CompleteRegistration THEN 409 ELSE 400
        /\ resp.error = IF CompleteRegistration THEN "Email already in use"
                                                ELSE "Missing fields"
        /\ resp.row = NoRow
        /\ users = before.users

C17_Witness ==
    /\ resp.op = "POST /auth/register"
    /\ resp.status = 409
    /\ \E u \in users : u.email = resp.email /\ ~Compare(resp.password, u.password)
    /\ Cardinality(users) = 2

\* the login being answered names no user, or a user whose password differs
UnknownEmail == ~\E u \in before.users : u.email = resp.email
WrongPassword == \E u \in before.users : u.email = resp.email /\ ~Compare(resp.password, u.password)

\* C18: a login with an email no user has and a login with the email of a user
\* and a password that does not verify get one and the same response, 401 with
\* the same error body, and neither gets a token.
C18_LoginHidesEmails ==
    (/\ resp.op = "POST /auth/login"
     /\ resp.email # Missing /\ resp.password # Missing
     /\ UnknownEmail \/ WrongPassword) =>
        /\ resp.status = 401
        /\ resp.error = "Invalid credentials"
        /\ resp.row = NoRow
        /\ resp.body = NoBody
        /\ users = before.users

C18_Witness ==
    /\ resp.op = "POST /auth/login"
    /\ resp.status = 401
    /\ UnknownEmail
    /\ \E u \in users : Compare(resp.password, u.password)

\* the organizations of user u in tables T
OrgsOf(T, u) == {o \in T.organizations : o.ownerId = u}

ForeignCreate ==
    /\ Actor # NoUser
    /\ resp.id # NoId
    /\ \/ /\ resp.op = "POST /lists"
          /\ ~\E b \in before.boards : b.id = resp.id /\ b.ownerId = Actor
       \/ /\ resp.op = "POST /cards"
          /\ Actor \notin ListOwners(before, resp.id)

\* C20 as stated: every such creation is answered 404 and adds no list or card.
C20_EveryForeignCreate404 ==
    ForeignCreate =>
        /\ resp.status = 404
        /\ lists = before.lists
        /\ cards = before.cards

\* C20 amended: such a creation is answered 404 "... not found or access
\* denied" when it carries the name / title and 400 when it does not; either
\* way no row is added or changed.
C20_ForeignCreateRejected ==
    ForeignCreate =>
        /\ resp.status = IF resp.name # Missing THEN 404 ELSE 400
        /\ resp.name # Missing =>
              resp.error = IF resp.op = "POST /lists"
                           THEN "Board not found or access denied"
                           ELSE "List not found or access denied"
        /\ resp.row = NoRow
        /\ Tables = before

C20_Witness ==
    /\ ForeignCreate
    /\ resp.op = "POST /cards"
    /\ resp.status = 404
    /\ \E l \in lists : l.id = resp.id /\ ListOwners(Tables, l.id) # {}
    /\ \E b \in boards : b.ownerId = Actor

\* the request being answered lacks a field its route requires
LacksField ==
    CASE resp.op = "POST /boards" -> Actor # NoUser /\ resp.name = Missing
      [] resp.op = "POST /lists" ->
            Actor # NoUser /\ (resp.name = Missing \/ resp.id = NoId)
      [] resp.op = "PUT /lists/:id" -> Actor # NoUser /\ resp.name = Missing
      [] resp.op = "POST /cards" ->
            Actor # NoUser /\ (resp.name = Missing \/ resp.id = NoId)
      [] resp.op = "PUT /cards/:id" -> Actor # NoUser /\ resp.name = Missing
      [] resp.op = "POST /auth/register" ->
            resp.email = Missing \/ resp.password = Missing \/ resp.name = Missing
      [] resp.op = "POST /auth/login" ->
            resp.email = Missing \/ resp.password = Missing
      [] OTHER -> FALSE

\* C21: a request that lacks a required field (with a verified token on the
\* board, list and card routes) is answered 400, returns no row and leaves
\* every table as it was.
C21_MissingField400 ==
    LacksField =>
        /\ resp.status = 400
        /\ resp.row = NoRow
        /\ Tables = before

C21_Witness ==
    /\ LacksField
    /\ resp.op = "POST /cards"
    /\ resp.name = Missing
    /\ resp.status = 400
    /\ \E l \in lists : l.id = resp.id /\ ListOwners(Tables, l.id) = {Actor}

\* the rows of sequence f come in ascending position
AscendingPosition(f) ==
    \A i, j \in DOMAIN f : i < j => f[i].position < f[j].position

\* C22: the body of a successful read of the caller's boards has the lists of
\* every board in ascending position and the cards of every list in ascending
\* position.
C22_ChildrenInPositionOrder ==
    (resp.op = "GET /boards" /\ resp.status = 200) =>
        /\ \A b \in DOMAIN resp.body.lists : AscendingPosition(resp.body.lists[b])
        /\ \A l \in DOMAIN resp.body.cards : AscendingPosition(resp.body.cards[l])

\* C23: a request answered 500 carries the generic message of its route and
\* leaves every table equal to what it was when the request started.
C23_FailureLeavesNoTrace ==
    resp.status = 500 =>
        /\ resp.error \in {"Failed to create board", "Failed to create list",
                           "Failed to delete list"}
        /\ Tables = before

\* request p is a DELETE /lists/:id
Deleting(p) == inflight[p].op = "DELETE /lists/:id"

C25_OneWinnerOneConflict ==
    /\ \A e \in Emails : Cardinality(getUserByEmail(e)) <= 1
    /\ \A p, q \in Procs :
          (/\ p # q
           /\ inflight[p].op = "POST /auth/register" /\ inflight[p].pc = "done"
           /\ inflight[q].op = "POST /auth/register" /\ inflight[q].pc = "done"
           /\ inflight[p].email = inflight[q].email
           /\ inflight[p].status = 200
           \* q carries all three fields as well
           /\ inflight[q].status # 400)
          => inflight[q].status = 409

\* C26: when a card of list L1 is dropped on a list L2 that has no cards (the
\* drop target is the list itself), L2's cards are exactly that card and the
\* card is no longer among L1's.
C26_MoveIntoEmptyList ==
    (drop # NoDrop /\ page.loaded) =>
        LET pre == drop.lists
            i == ListIdxOf(pre, drop.active)
        IN \A j \in 1..Len(pre) :
              (i # 0 /\ j # i /\ pre[j].row.id = drop.over /\ pre[j].cards = <<>>) =>
                 /\ Len(page.lists[j].cards) = 1
                 /\ page.lists[j].cards[1].id = drop.active
                 /\ \A m \in 1..Len(page.lists[i].cards) :
                       page.lists[i].cards[m].id # drop.active

\* C27: every card's listId is the id of a stored list and every list's
\* boardId is the id of a stored board, at every step of requests that create
\* cards while their list, or its board, is being deleted.
C27_NoOrphans ==
    /\ \A c \in cards : \E l \in lists : l.id = c.listId
    /\ \A l \in lists : \E b \in boards : b.id = l.boardId

\* a create-card request that ran alongside a delete of its list was refused
\* by the foreign key, because the list went away between its access check
\* and its insert
C27_Witness ==
    \E p, q \in Procs :
        /\ inflight[p].op = "POST /cards" /\ inflight[p].pc = "done"
        /\ inflight[p].status = 500
        /\ ~\E l \in lists : l.id = inflight[p].parent
        /\ inflight[q].op = "DELETE /lists/:id" /\ inflight[q].pc = "done"
        /\ inflight[q].parent = inflight[p].parent

\* C28: the organization a board references is stored and is owned by the
\* owner of the board.
C28_BoardInOwnOrganization ==
    \A b \in boards :
        \E o \in organizations : o.id = b.organizationId /\ o.ownerId = b.ownerId

\* C29: when two board creations without organizationId by one user have both
\* been answered 200, the user owns exactly one organization and both boards
\* were put in it.
C29_ParallelCreationsShareOrganization ==
    \A p, q \in Procs :
        (/\ p # q
         /\ inflight[p].op = "POST /boards" /\ inflight[p].pc = "done"
         /\ inflight[q].op = "POST /boards" /\ inflight[q].pc = "done"
         /\ inflight[p].status = 200 /\ inflight[q].status = 200
         /\ inflight[p].userId = inflight[q].userId)
        => /\ Cardinality(OrgsOf(Tables, inflight[p].userId)) = 1
           /\ inflight[p].parent = inflight[q].parent
           /\ \A b \in boards : b.ownerId = inflight[p].userId =>
                 b.organizationId = inflight[p].parent

\* how many times the card with this id occurs in the lists ls of a board state
Occurrences(ls, id) ==
    Cardinality({ix \in UNION {{<<i, m>> : m \in 1..Len(ls[i].cards)} : i \in 1..Len(ls)} :
                    ls[ix[1]].cards[ix[2]].id = id})

\* C30: whatever was dragged and wherever it was dropped, every card id occurs
\* in the lists of the board state as many times after the drop as before it,
\* and the board has the lists it had.
C30_DragKeepsCards ==
    (drop # NoDrop /\ page.loaded) =>
        /\ Len(page.lists) = Len(drop.lists)
        /\ \A i \in 1..Len(drop.lists) : page.lists[i].row = drop.lists[i].row
        /\ \A id \in CardIds \cup ListIds :
              Occurrences(page.lists, id) = Occurrences(drop.lists, id)

C30_Witness ==
    /\ drop # NoDrop
    /\ page.loaded
    /\ page.lists # drop.lists
    /\ Len(page.lists) = 2
    /\ \A id \in CardIds : Occurrences(page.lists, id) = 1
    /\ \E i \in 1..Len(page.lists) : Len(page.lists[i].cards) = 2

====
